---- MODULE Spec2Model ----
(***************************************************************************)
(* A model of rbac.go: role chains, the index built by NewRbac, and the    *)
(* Authorizer with its asynchronous role additions.                        *)
(*                                                                         *)
(* Go values are modelled as follows.                                      *)
(*   string              a TLA+ string; + is \o                            *)
(*   []string            a sequence of strings                             *)
(*   map[string]bool     used as a set: the set of its keys                *)
(*   map[string]map..    a function from its keys to sets of keys          *)
(*   error               <<>> for nil, <<msg>> for an error whose Error()  *)
(*                       is msg                                            *)
(*   sync.Map            the set of its keys (every value stored is true)  *)
(*   sync.WaitGroup      its counter                                       *)
(***************************************************************************)
EXTENDS Integers, Sequences, FiniteSets, TLC

VARIABLES
    chains,     \* the *RoleChain objects created so far, in creation order
    declared,   \* history: declared[c][j] is the list passed to the j-th Add of chain c
    built,      \* what NewRbac returned: [called, rbac, err]
    azs,        \* the Authorizer objects: [roles, wg, errors], and the history
                \* given: the roles passed to Authorizer(...) and Add(...)
    tasks,      \* the goroutines started by AddAsync: [az, roles, err, pc, i]
    callerPc,   \* the calling goroutine: "idle" or "waiting" (inside wg.Wait)
    query,      \* the query the caller is inside
    ret         \* what the caller's last query returned

vars == <<chains, declared, built, azs, tasks, callerPc, query, ret>>

(***************************************************************************)
(* Bounds and input sets                                                   *)
(***************************************************************************)
MaxChains == 2
MaxAdds == 2
MaxTasks == 2

ChainNames == {"use", "use.Account"}
RoleIds == {"Member", "Account.Member"}
PermLists == {<<>>, <<"get">>, <<"update">>, <<"get", "get">>}

\* The program's Authorizer variables.
AzVars == {"az", "other"}
\* Role lists given to Authorizer(...) and Add(...).
SyncRoleLists == {<<>>, <<"use.Account.Member">>, <<"ghost">>}
\* What the resolvers passed to AddAsync return: a role list and an error
\* (<<>> is nil, <<"boom">> an error whose message is boom).
ResolverOutcomes ==
    {[roles |-> <<"use.Account.Member">>, err |-> <<>>],
     [roles |-> <<"use.Account.Admin">>, err |-> <<>>],
     [roles |-> <<"ghost", "use.Account.Member">>, err |-> <<>>],
     [roles |-> <<>>, err |-> <<"boom">>],
     [roles |-> <<"use.Account.Admin">>, err |-> <<"boom">>]}
\* Arguments of the queries.
QueryPermissions == {"get", "update", "list", "nope"}
QueryRoles == {"use.Account.Member", "use.Account.Admin", "ghost"}
QueryChains == ChainNames \cup {"auth"}
QueryRoleIds == RoleIds \cup {"Admin"}

(***************************************************************************)
(* Helpers for Go maps, slices and errors                                  *)
(***************************************************************************)
NilErr == <<>>
Errorf(msg) == <<msg>>

EmptyMap == [k \in {} |-> {}]

\* m[k] = v
MapSet(m, k, v) == [x \in (DOMAIN m) \cup {k} |-> IF x = k THEN v ELSE m[x]]

\* m[k] read from a map of maps: the zero value (a nil map, no keys) when k is absent
MapGet(m, k) == IF k \in DOMAIN m THEN m[k] ELSE {}

Range(s) == {s[k] : k \in 1..Len(s)}

(***************************************************************************)
(* Role chains                                                             *)
(***************************************************************************)
\* Chain(name)
NewChain(name) == [name |-> name, roles |-> <<>>, permissions |-> <<>>]

\* A mutant of ChainAddOp: the role gets only its own permissions.
ChainAddNoExtend(c, id, permissions) ==
    [c EXCEPT !.roles = Append(@, [Id |-> id, Permissions |-> permissions]),
              !.permissions = c.permissions \o permissions]

\* A mutant of ChainAddOp: the permissions are added as to a set, those the
\* chain already has are skipped.
ChainAddUnion(c, id, permissions) ==
    LET fresh == SelectSeq(permissions, LAMBDA p : p \notin Range(c.permissions))
        extendedPermissions == c.permissions \o fresh
    IN  [c EXCEPT !.roles = Append(@, [Id |-> id, Permissions |-> extendedPermissions]),
                  !.permissions = extendedPermissions]

\* (c *RoleChain) Add(id, permissions).  append() may share one backing array
\* between the roles' slices, but every later append writes past the length of
\* each earlier slice, so the slices behave as values.
ChainAddOp(c, id, permissions) ==
    LET extendedPermissions == c.permissions \o permissions
    IN  [c EXCEPT !.roles = Append(@, [Id |-> id, Permissions |-> extendedPermissions]),
                  !.permissions = extendedPermissions]

(***************************************************************************)
(* NewRbac                                                                 *)
(***************************************************************************)
NilRbac ==
    [isNil |-> TRUE, permissionToRoleSet |-> EmptyMap,
     chainToRoleIdSet |-> EmptyMap, roleToPermissionSet |-> EmptyMap]

EmptyRbac == [NilRbac EXCEPT !.isNil = FALSE]

\* chain.name + "." + role.Id
RoleName(chainName, roleId) == chainName \o "." \o roleId

\* The loop over role.Permissions, from index k on.
RECURSIVE PermissionLoop(_, _, _, _)
PermissionLoop(st, roleName, permissions, k) ==
    IF k > Len(permissions) THEN [rbac |-> st, err |-> NilErr]
    ELSE
        LET permission == permissions[k]
            p2r == IF permission \notin DOMAIN st.permissionToRoleSet
                   THEN MapSet(st.permissionToRoleSet, permission, {})
                   ELSE st.permissionToRoleSet
        IN  IF roleName \in p2r[permission]
            THEN [rbac |-> NilRbac,
                  err |-> Errorf("duplicate permission " \o permission
                                 \o " in role " \o roleName)]
            ELSE PermissionLoop(
                    [st EXCEPT
                        !.permissionToRoleSet =
                            MapSet(p2r, permission, p2r[permission] \cup {roleName}),
                        !.roleToPermissionSet =
                            MapSet(@, roleName, @[roleName] \cup {permission})],
                    roleName, permissions, k + 1)

\* The loop over chain.roles, from index j on.
RECURSIVE RoleLoop(_, _, _)
RoleLoop(st, chain, j) ==
    IF j > Len(chain.roles) THEN [rbac |-> st, err |-> NilErr]
    ELSE
        LET role == chain.roles[j]
            roleName == RoleName(chain.name, role.Id)
            st1 == [st EXCEPT !.chainToRoleIdSet =
                        MapSet(@, chain.name, @[chain.name] \cup {role.Id})]
        IN  IF roleName \in DOMAIN st1.roleToPermissionSet
            THEN [rbac |-> NilRbac, err |-> Errorf("duplicate role " \o roleName)]
            ELSE
                LET st2 == [st1 EXCEPT !.roleToPermissionSet = MapSet(@, roleName, {})]
                    r == PermissionLoop(st2, roleName, role.Permissions, 1)
                IN  IF r.err # NilErr THEN r ELSE RoleLoop(r.rbac, chain, j + 1)

\* chainToRoleIdSet[chain.name] = map[string]bool{}
ChainEntry(st, chain) ==
    [st EXCEPT !.chainToRoleIdSet = MapSet(@, chain.name, {})]

\* The loop over roleChains, from index i on.
RECURSIVE ChainLoop(_, _, _)
ChainLoop(st, roleChains, i) ==
    IF i > Len(roleChains) THEN [rbac |-> st, err |-> NilErr]
    ELSE
        LET chain == roleChains[i]
            r == RoleLoop(ChainEntry(st, chain), chain, 1)
        IN  IF r.err # NilErr THEN r ELSE ChainLoop(r.rbac, roleChains, i + 1)

\* NewRbac(roleChains...)
NewRbacOp(roleChains) ==
    IF Len(roleChains) = 0
    THEN [rbac |-> NilRbac, err |-> Errorf("no role chains provided")]
    ELSE ChainLoop(EmptyRbac, roleChains, 1)

\* (r *Rbac) ChainHasRoleId(chain, roleId)
ChainHasRoleIdOp(r, chain, roleId) ==
    IF chain \notin DOMAIN r.chainToRoleIdSet THEN FALSE
    ELSE IF roleId \notin r.chainToRoleIdSet[chain] THEN FALSE
    ELSE TRUE

(***************************************************************************)
(* Authorizer                                                              *)
(***************************************************************************)
\* The Authorizer literal of Rbac.Authorizer, before er.Add(roles...)
NewAuthorizer ==
    [created |-> TRUE, roles |-> {}, wg |-> 0, errors |-> {}, given |-> {}]

NoAuthorizer ==
    [created |-> FALSE, roles |-> {}, wg |-> 0, errors |-> {}, given |-> {}]

\* A mutant of StoreRole: the store replaces the set, earlier stores are lost.
StoreRoleOverwrite(a, role) == [a EXCEPT !.roles = {role}]

\* a.roles.Store(role, true)
StoreRole(a, role) == [a EXCEPT !.roles = @ \cup {role}]

\* A mutant of StoreError: one error slot, the last message wins.
StoreErrorLast(a, msg) == [a EXCEPT !.errors = {msg}]

\* a.errors.Store(msg, true)
StoreError(a, msg) == [a EXCEPT !.errors = @ \cup {msg}]

\* (a *Authorizer) Add(roles...), from index k on
RECURSIVE AddOp(_, _, _)
AddOp(a, roles, k) ==
    IF k > Len(roles) THEN a ELSE AddOp(StoreRole(a, roles[k]), roles, k + 1)

\* fmt.Sprintf("role %s not allowed", role)
NotAllowed(role) == "role " \o role \o " not allowed"

\* strings.Join(elems, sep)
RECURSIVE Join(_, _)
Join(elems, sep) ==
    IF Len(elems) = 0 THEN ""
    ELSE IF Len(elems) = 1 THEN elems[1]
    ELSE elems[1] \o sep \o Join(Tail(elems), sep)

\* The orders in which sync.Map.Range may visit the keys of a map.
RangeOrders(keys) ==
    {s \in [1..Cardinality(keys) -> keys] : \A i, j \in DOMAIN s : i # j => s[i] # s[j]}

\* The body of Err after wg.Wait(), for the order in which Range visited the keys.
ErrOp(errors) ==
    IF Len(errors) = 0 THEN NilErr ELSE Errorf(Join(errors, "; "))

\* A mutant of HasPermissionOp: any held role gives the permission.
HasPermissionAnyRole(a, rbac, permission) == a.roles # {}

\* A mutant of HasPermissionOp: every role that gives the permission must be held.
HasPermissionAllRoles(a, rbac, permission) ==
    LET rolesThatGiveAccess == MapGet(rbac.permissionToRoleSet, permission)
    IN  \A role \in rolesThatGiveAccess : role \in a.roles

\* The body of HasPermission after wg.Wait()
HasPermissionOp(a, rbac, permission) ==
    LET rolesThatGiveAccess == MapGet(rbac.permissionToRoleSet, permission)
    IN  \E role \in rolesThatGiveAccess : role \in a.roles

\* The body of HasRole after wg.Wait()
HasRoleOp(a, role) == role \in a.roles

(***************************************************************************)
(* The state machine                                                       *)
(***************************************************************************)
NotBuilt == [called |-> FALSE, rbac |-> NilRbac, err |-> NilErr]

NoQuery == [op |-> "none", az |-> "", arg |-> "", arg2 |-> "", before |-> {}, running |-> {}]

NoRet ==
    [op |-> "none", az |-> "", arg |-> "", arg2 |-> "", before |-> {}, running |-> {},
     bool |-> FALSE, errors |-> <<>>, err |-> NilErr]

\* The chains of a program: a sequence of [name, adds], adds a sequence of
\* [id, permissions], one per Add call.
RECURSIVE AddAll(_, _, _)
AddAll(c, adds, k) ==
    IF k > Len(adds) THEN c
    ELSE AddAll(ChainAddOp(c, adds[k].id, adds[k].permissions), adds, k + 1)

ChainsOf(program) ==
    [c \in DOMAIN program |-> AddAll(NewChain(program[c].name), program[c].adds, 1)]

DeclaredOf(program) ==
    [c \in DOMAIN program |->
        [j \in DOMAIN program[c].adds |-> program[c].adds[j].permissions]]

\* init() of the test file
TestProgram ==
    << [name |-> "auth",
        adds |-> << [id |-> "Unauthenticated", permissions |-> <<"list">>],
                    [id |-> "Authenticated", permissions |-> <<"create">>] >>],
       [name |-> "use.Account",
        adds |-> << [id |-> "Member", permissions |-> <<"get">>],
                    [id |-> "Admin", permissions |-> <<"update", "delete">>] >>] >>

\* The chain use.Account alone, as the test file declares it.
ExtendingProgram ==
    << [name |-> "use.Account",
        adds |-> << [id |-> "Member", permissions |-> <<"get">>],
                    [id |-> "Admin", permissions |-> <<"update", "delete">>] >>] >>

\* The chain use.Account with Admin declared as get, update, delete.
RedeclaringProgram ==
    << [name |-> "use.Account",
        adds |-> << [id |-> "Member", permissions |-> <<"get">>],
                    [id |-> "Admin", permissions |-> <<"get", "update", "delete">>] >>] >>

AccountPrograms == {ExtendingProgram, RedeclaringProgram}

Idle ==
    /\ azs = [v \in AzVars |-> NoAuthorizer]
    /\ tasks = <<>>
    /\ callerPc = "idle"
    /\ query = NoQuery
    /\ ret = NoRet

\* The program starts with nothing constructed.
InitBuild ==
    /\ chains = <<>>
    /\ declared = <<>>
    /\ built = NotBuilt
    /\ Idle

\* The program has run init() on program: its chains are complete and NewRbac
\* was called on them.
InitOf(program) ==
    /\ chains = ChainsOf(program)
    /\ declared = DeclaredOf(program)
    /\ built = [called |-> TRUE] @@ NewRbacOp(chains)
    /\ Idle

Init == InitOf(TestProgram)

InitAccount == \E program \in AccountPrograms : InitOf(program)

TotalAdds == LET RECURSIVE Sum(_)
                 Sum(k) == IF k = 0 THEN 0 ELSE Len(chains[k].roles) + Sum(k - 1)
             IN  Sum(Len(chains))

\* c := Chain(name)
Chain(name) ==
    /\ ~built.called
    /\ Len(chains) < MaxChains
    /\ chains' = Append(chains, NewChain(name))
    /\ declared' = Append(declared, <<>>)
    /\ UNCHANGED <<built, azs, tasks, callerPc, query, ret>>

\* chains[c].Add(id, permissions)
ChainAdd(c, id, permissions) ==
    /\ ~built.called
    /\ TotalAdds < MaxAdds
    /\ chains' = [chains EXCEPT ![c] = ChainAddOp(@, id, permissions)]
    /\ declared' = [declared EXCEPT ![c] = Append(@, permissions)]
    /\ UNCHANGED <<built, azs, tasks, callerPc, query, ret>>

\* Rbac, err = NewRbac(chains...)
NewRbac ==
    /\ ~built.called
    /\ built' = [called |-> TRUE] @@ NewRbacOp(chains)
    /\ UNCHANGED <<chains, declared, azs, tasks, callerPc, query, ret>>

\* The program goes on to use the index only when NewRbac returned no error.
HaveRbac == built.called /\ built.err = NilErr

\* ret = Rbac.ChainHasRoleId(chain, roleId)
ChainHasRoleId(chain, roleId) ==
    /\ HaveRbac
    /\ callerPc = "idle"
    /\ ret' = [NoRet EXCEPT !.op = "ChainHasRoleId", !.arg = chain, !.arg2 = roleId,
                            !.bool = ChainHasRoleIdOp(built.rbac, chain, roleId)]
    /\ UNCHANGED <<chains, declared, built, azs, tasks, callerPc, query>>

\* v := Rbac.Authorizer(roles...)
Authorizer(v, roles) ==
    /\ HaveRbac
    /\ callerPc = "idle"
    /\ ~azs[v].created
    /\ azs' = [azs EXCEPT ![v] =
                    [AddOp(NewAuthorizer, roles, 1) EXCEPT !.given = Range(roles)]]
    /\ ret' = NoRet
    /\ UNCHANGED <<chains, declared, built, tasks, callerPc, query>>

\* A mutant of Add: a role that is no key of roleToPermissionSet is reported,
\* as AddAsync does.
AddValidating(v, roles) ==
    /\ callerPc = "idle"
    /\ azs[v].created
    /\ azs' = [azs EXCEPT ![v] =
                    [AddOp(@, roles, 1) EXCEPT
                        !.given = @ \cup Range(roles),
                        !.errors = @ \cup {NotAllowed(r) : r \in
                            {x \in Range(roles) :
                                x \notin DOMAIN built.rbac.roleToPermissionSet}}]]
    /\ ret' = NoRet
    /\ UNCHANGED <<chains, declared, built, tasks, callerPc, query>>

\* v.Add(roles...)
Add(v, roles) ==
    /\ callerPc = "idle"
    /\ azs[v].created
    /\ azs' = [azs EXCEPT ![v] =
                    [AddOp(@, roles, 1) EXCEPT !.given = @ \cup Range(roles)]]
    /\ ret' = NoRet
    /\ UNCHANGED <<chains, declared, built, tasks, callerPc, query>>

\* A mutant of AddAsync: the goroutine is started without a.wg.Add(1).
AddAsyncNoCount(v, roles, err) ==
    /\ callerPc = "idle"
    /\ azs[v].created
    /\ Len(tasks) < MaxTasks
    /\ tasks' = Append(tasks, [az |-> v, roles |-> roles, err |-> err,
                               pc |-> "call", i |-> 1])
    /\ ret' = NoRet
    /\ UNCHANGED <<chains, declared, built, azs, callerPc, query>>

\* v.AddAsync(f), f a resolver that returns (roles, err): a.wg.Add(1) and the
\* go statement.
AddAsync(v, roles, err) ==
    /\ callerPc = "idle"
    /\ azs[v].created
    /\ Len(tasks) < MaxTasks
    /\ azs' = [azs EXCEPT ![v].wg = @ + 1]
    /\ tasks' = Append(tasks, [az |-> v, roles |-> roles, err |-> err,
                               pc |-> "call", i |-> 1])
    /\ ret' = NoRet
    /\ UNCHANGED <<chains, declared, built, callerPc, query>>

\* Where the goroutine goes after roles, err := f() and the error check.
AfterCall(roles) == IF Len(roles) > 0 THEN "check" ELSE "done"

\* The goroutine of task t: roles, err := f(); if err != nil { a.errors.Store(...) }
TaskCall(t) ==
    /\ tasks[t].pc = "call"
    /\ azs' = [azs EXCEPT ![tasks[t].az] =
                    IF tasks[t].err # NilErr THEN StoreError(@, tasks[t].err[1]) ELSE @]
    /\ tasks' = [tasks EXCEPT ![t].pc = AfterCall(tasks[t].roles)]
    /\ UNCHANGED <<chains, declared, built, callerPc, query, ret>>

\* One iteration of the goroutine's loop over roles.
TaskCheckRole(t) ==
    /\ tasks[t].pc = "check"
    /\ LET role == tasks[t].roles[tasks[t].i]
       IN  azs' = [azs EXCEPT ![tasks[t].az] =
                       IF role \notin DOMAIN built.rbac.roleToPermissionSet
                       THEN StoreError(@, NotAllowed(role)) ELSE @]
    /\ tasks' = IF tasks[t].i < Len(tasks[t].roles)
                THEN [tasks EXCEPT ![t].i = @ + 1]
                ELSE [tasks EXCEPT ![t].i = 1, ![t].pc = "add"]
    /\ UNCHANGED <<chains, declared, built, callerPc, query, ret>>

\* A mutant of TaskAddRole: a role that is no key of roleToPermissionSet is
\* skipped.
TaskAddRoleKnownOnly(t) ==
    /\ tasks[t].pc = "add"
    /\ azs' = [azs EXCEPT ![tasks[t].az] =
                    IF tasks[t].roles[tasks[t].i] \in DOMAIN built.rbac.roleToPermissionSet
                    THEN StoreRole(@, tasks[t].roles[tasks[t].i]) ELSE @]
    /\ tasks' = IF tasks[t].i < Len(tasks[t].roles)
                THEN [tasks EXCEPT ![t].i = @ + 1]
                ELSE [tasks EXCEPT ![t].i = 1, ![t].pc = "done"]
    /\ UNCHANGED <<chains, declared, built, callerPc, query, ret>>

\* One iteration of the loop of a.Add(roles...) in the goroutine.
TaskAddRole(t) ==
    /\ tasks[t].pc = "add"
    /\ azs' = [azs EXCEPT ![tasks[t].az] = StoreRole(@, tasks[t].roles[tasks[t].i])]
    /\ tasks' = IF tasks[t].i < Len(tasks[t].roles)
                THEN [tasks EXCEPT ![t].i = @ + 1]
                ELSE [tasks EXCEPT ![t].i = 1, ![t].pc = "done"]
    /\ UNCHANGED <<chains, declared, built, callerPc, query, ret>>

\* A mutant of TaskDone: the goroutine exits without a.wg.Done().
TaskDoneNoDecrement(t) ==
    /\ tasks[t].pc = "done"
    /\ tasks' = [tasks EXCEPT ![t].pc = "exited"]
    /\ UNCHANGED <<chains, declared, built, azs, callerPc, query, ret>>

\* The goroutine's deferred a.wg.Done()
TaskDone(t) ==
    /\ tasks[t].pc = "done"
    /\ azs' = [azs EXCEPT ![tasks[t].az].wg = @ - 1]
    /\ tasks' = [tasks EXCEPT ![t].pc = "exited"]
    /\ UNCHANGED <<chains, declared, built, callerPc, query, ret>>

\* A mutant of WaitReturns: one WaitGroup is shared by all Authorizers.
WaitReturnsGlobal(a) == \A v \in AzVars : azs[v].wg = 0

\* A mutant of WaitReturns: the wait does not block.
WaitNoBlock(a) == TRUE

\* a.wg.Wait() returns
WaitReturns(a) == a.wg = 0

\* The caller enters v.Err(), v.HasPermission(arg) or v.HasRole(arg) and reaches
\* a.wg.Wait().  before: the tasks of v scheduled before the call; running: those
\* of them that have not completed.
CallQuery(v, op, arg) ==
    /\ callerPc = "idle"
    /\ azs[v].created
    /\ callerPc' = "waiting"
    /\ LET before == {t \in DOMAIN tasks : tasks[t].az = v}
       IN  query' = [NoQuery EXCEPT !.op = op, !.az = v, !.arg = arg, !.before = before,
                        !.running = {t \in before : tasks[t].pc # "exited"}]
    /\ ret' = NoRet
    /\ UNCHANGED <<chains, declared, built, azs, tasks>>

\* a.wg.Wait() returns and the query runs to its return statement.
ReturnQuery ==
    /\ callerPc = "waiting"
    /\ WaitReturns(azs[query.az])
    /\ callerPc' = "idle"
    /\ query' = NoQuery
    /\ LET a == azs[query.az]
           r == [NoRet EXCEPT !.op = query.op, !.az = query.az, !.arg = query.arg,
                              !.before = query.before, !.running = query.running]
       IN  \/ /\ query.op = "Err"
              /\ \E errors \in RangeOrders(a.errors) :
                    ret' = [r EXCEPT !.errors = errors, !.err = ErrOp(errors)]
           \/ /\ query.op = "HasPermission"
              /\ ret' = [r EXCEPT !.bool = HasPermissionOp(a, built.rbac, query.arg)]
           \/ /\ query.op = "HasRole"
              /\ ret' = [r EXCEPT !.bool = HasRoleOp(a, query.arg)]
    /\ UNCHANGED <<chains, declared, built, azs, tasks>>

NextBuild ==
    \/ \E name \in ChainNames : Chain(name)
    \/ \E c \in DOMAIN chains, id \in RoleIds, permissions \in PermLists :
          ChainAdd(c, id, permissions)
    \/ NewRbac
    \/ \E chain \in QueryChains, roleId \in QueryRoleIds : ChainHasRoleId(chain, roleId)

\* The steps of a program that uses the Authorizer variables V.
NextOn(V) ==
    \/ \E v \in V, roles \in SyncRoleLists : Authorizer(v, roles)
    \/ \E v \in V, roles \in SyncRoleLists : Add(v, roles)
    \/ \E v \in V, f \in ResolverOutcomes : AddAsync(v, f.roles, f.err)
    \/ \E t \in DOMAIN tasks : TaskCall(t)
    \/ \E t \in DOMAIN tasks : TaskCheckRole(t)
    \/ \E t \in DOMAIN tasks : TaskAddRole(t)
    \/ \E t \in DOMAIN tasks : TaskDone(t)
    \/ \E v \in V : CallQuery(v, "Err", "")
    \/ \E v \in V, p \in QueryPermissions : CallQuery(v, "HasPermission", p)
    \/ \E v \in V, r \in QueryRoles : CallQuery(v, "HasRole", r)
    \/ ReturnQuery

Next == NextOn({"az"})

\* Chains are built, then the index, then ChainHasRoleId is asked.
SpecBuild == InitBuild /\ [][NextBuild]_vars

\* On the index of the test file's init(): one Authorizer, its tasks and queries.
Spec == Init /\ [][Next]_vars

\* The same on the chain use.Account alone, declared in one of two ways.
SpecAccount == InitAccount /\ [][Next]_vars

(***************************************************************************)
(* Programs with few inputs                                                *)
(***************************************************************************)
\* Two resolvers: one returns an unknown and a known role, one fails with a role.
FewResolvers ==
    {[roles |-> <<"ghost", "use.Account.Member">>, err |-> <<>>],
     [roles |-> <<"use.Account.Admin">>, err |-> <<"boom">>]}

\* A mutant of ChainAddAfter: the index is a view of the chains and follows them.
ChainAddAfterShared(c, id, permissions) ==
    /\ HaveRbac
    /\ callerPc = "idle"
    /\ Len(chains[c].roles) <= MaxAdds
    /\ chains' = [chains EXCEPT ![c] = ChainAddOp(@, id, permissions)]
    /\ declared' = [declared EXCEPT ![c] = Append(@, permissions)]
    /\ built' = [built EXCEPT !.rbac = NewRbacOp(chains').rbac]
    /\ UNCHANGED <<azs, tasks, callerPc, query, ret>>

\* chains[c].Add(id, permissions) after NewRbac has built the index from the
\* chains: NewRbac copied the names into maps of its own.
ChainAddAfter(c, id, permissions) ==
    /\ HaveRbac
    /\ callerPc = "idle"
    /\ Len(chains[c].roles) <= MaxAdds
    /\ chains' = [chains EXCEPT ![c] = ChainAddOp(@, id, permissions)]
    /\ declared' = [declared EXCEPT ![c] = Append(@, permissions)]
    /\ UNCHANGED <<built, azs, tasks, callerPc, query, ret>>

\* A program that uses every operation after init(), and adds to the chains.
NextFrame ==
    \/ Authorizer("az", <<>>)
    \/ Add("az", <<"ghost">>)
    \/ \E f \in FewResolvers : AddAsync("az", f.roles, f.err)
    \/ \E t \in DOMAIN tasks : TaskCall(t)
    \/ \E t \in DOMAIN tasks : TaskCheckRole(t)
    \/ \E t \in DOMAIN tasks : TaskAddRole(t)
    \/ \E t \in DOMAIN tasks : TaskDone(t)
    \/ CallQuery("az", "Err", "")
    \/ \E p \in {"nope", "get"} : CallQuery("az", "HasPermission", p)
    \/ CallQuery("az", "HasRole", "ghost")
    \/ ReturnQuery
    \/ \E roleId \in {"Member", "Owner"} : ChainHasRoleId("use.Account", roleId)
    \/ \E c \in DOMAIN chains : ChainAddAfter(c, "Owner", <<"nope">>)

SpecFrame == Init /\ [][NextFrame]_vars

\* A program with two Authorizers of the one index.
NextPair ==
    \/ \E v \in AzVars : Authorizer(v, <<>>)
    \/ Add("az", <<"use.Account.Member">>)
    \/ Add("other", <<"ghost">>)
    \/ \E v \in AzVars, f \in FewResolvers : AddAsync(v, f.roles, f.err)
    \/ \E t \in DOMAIN tasks : TaskCall(t)
    \/ \E t \in DOMAIN tasks : TaskCheckRole(t)
    \/ \E t \in DOMAIN tasks : TaskAddRole(t)
    \/ \E t \in DOMAIN tasks : TaskDone(t)
    \/ \E v \in AzVars : CallQuery(v, "Err", "")
    \/ \E v \in AzVars : CallQuery(v, "HasPermission", "get")
    \/ \E v \in AzVars : CallQuery(v, "HasRole", "ghost")
    \/ ReturnQuery

SpecPair == Init /\ [][NextPair]_vars

\* v.AddAsync(f) as the statement after a query on v has returned, that is
\* after a.wg.Wait() has returned with the counter at zero.
AddAsyncAfterQuery(v, roles, err) ==
    /\ ret.op \in {"Err", "HasPermission", "HasRole"}
    /\ ret.az = v
    /\ AddAsync(v, roles, err)

\* A program that schedules every task right after a query has returned.
NextRearm ==
    \/ \E roles \in SyncRoleLists : Authorizer("az", roles)
    \/ \E f \in ResolverOutcomes : AddAsyncAfterQuery("az", f.roles, f.err)
    \/ \E t \in DOMAIN tasks : TaskCall(t)
    \/ \E t \in DOMAIN tasks : TaskCheckRole(t)
    \/ \E t \in DOMAIN tasks : TaskAddRole(t)
    \/ \E t \in DOMAIN tasks : TaskDone(t)
    \/ CallQuery("az", "Err", "")
    \/ \E p \in QueryPermissions : CallQuery("az", "HasPermission", p)
    \/ \E r \in QueryRoles : CallQuery("az", "HasRole", r)
    \/ ReturnQuery

SpecRearm == Init /\ [][NextRearm]_vars

\* v.AddAsync(f) with a resolver f that never returns: the goroutine stays in
\* f() (pc "hung"), no step of it is ever enabled.
AddAsyncNever(v) ==
    /\ callerPc = "idle"
    /\ azs[v].created
    /\ Len(tasks) < MaxTasks
    /\ azs' = [azs EXCEPT ![v].wg = @ + 1]
    /\ tasks' = Append(tasks, [az |-> v, roles |-> <<>>, err |-> NilErr,
                               pc |-> "hung", i |-> 1])
    /\ ret' = NoRet
    /\ UNCHANGED <<chains, declared, built, callerPc, query>>

\* A step of the goroutine of task t.
TaskStep(t) ==
    /\ t \in DOMAIN tasks
    /\ \/ TaskCall(t)
       \/ TaskCheckRole(t)
       \/ TaskAddRole(t)
       \/ TaskDone(t)

\* A program whose resolvers return or never return.
NextLive ==
    \/ Authorizer("az", <<>>)
    \/ Add("az", <<"ghost">>)
    \/ \E f \in FewResolvers : AddAsync("az", f.roles, f.err)
    \/ AddAsyncNever("az")
    \/ \E t \in DOMAIN tasks : TaskStep(t)
    \/ CallQuery("az", "Err", "")
    \/ CallQuery("az", "HasPermission", "get")
    \/ CallQuery("az", "HasRole", "ghost")
    \/ ReturnQuery

\* The scheduler runs every goroutine that can take a step, a resolver that
\* returns at all returns eventually, and a caller whose wait can return
\* returns.
SpecLive ==
    /\ Init
    /\ [][NextLive]_vars
    /\ \A t \in 1..MaxTasks : WF_vars(TaskStep(t))
    /\ WF_vars(ReturnQuery)

(***************************************************************************)
(* Properties                                                              *)
(***************************************************************************)
Rbac == built.rbac

\* The caller is back from a query op and holds its result.
Returned(op) == callerPc = "idle" /\ ret.op = op

\* The permissions declared by role j of chain c and by the roles added before it.
DeclaredUpTo(c, j) == UNION {Range(declared[c][k]) : k \in 1..j}

\* The messages the code records for a task: the resolver's failure and one
\* message per role that is no key of roleToPermissionSet.
TaskMessages(t) ==
    (IF tasks[t].err # NilErr THEN {tasks[t].err[1]} ELSE {})
    \cup {NotAllowed(r) : r \in {x \in Range(tasks[t].roles) :
                                    x \notin DOMAIN Rbac.roleToPermissionSet}}

\* C1: a query that was called while a task scheduled before it was still
\* running has returned only after every task scheduled before the call has
\* completed, and its value holds what those tasks recorded: the messages of
\* all of them and the roles of those whose resolver succeeded.
C1_QueryWaitsForTasks ==
    (callerPc = "idle" /\ ret.op \in {"Err", "HasPermission", "HasRole"}) =>
        /\ \A t \in ret.before : tasks[t].pc = "exited"
        /\ ret.op = "Err" =>
              \A t \in ret.before : TaskMessages(t) \subseteq Range(ret.errors)
        /\ ret.op = "HasRole" =>
              ((\E t \in ret.before :
                    tasks[t].err = NilErr /\ ret.arg \in Range(tasks[t].roles))
               => ret.bool)
        /\ ret.op = "HasPermission" =>
              ((\E t \in ret.before :
                    /\ tasks[t].err = NilErr
                    /\ \E r \in Range(tasks[t].roles) :
                          r \in MapGet(Rbac.permissionToRoleSet, ret.arg))
               => ret.bool)

\* HasRole was called while the one task, which resolves to the role, was
\* running, and returned true.
C1_Witness ==
    /\ Returned("HasRole")
    /\ ret.bool
    /\ \E t \in ret.running : ret.arg \in Range(tasks[t].roles)
    /\ Cardinality(ret.before) = 1
    /\ azs[ret.az].roles = {ret.arg}

\* C2: HasPermission(p) returns true iff some role name of
\* permissionToRoleSet[p] is held; for a permission that is no key of
\* permissionToRoleSet it returns false whatever roles are held.
C2_HasPermissionIffGrantingRoleHeld ==
    Returned("HasPermission") =>
        LET held == azs[ret.az].roles
            known == ret.arg \in DOMAIN Rbac.permissionToRoleSet
        IN  /\ azs[ret.az].wg = 0
            /\ known => (ret.bool <=> (Rbac.permissionToRoleSet[ret.arg] \cap held # {}))
            /\ ~known => ~ret.bool

\* HasPermission returned false for an unknown permission with roles held.
C2_Witness ==
    /\ Returned("HasPermission")
    /\ ret.arg \notin DOMAIN Rbac.permissionToRoleSet
    /\ {"use.Account.Admin", "ghost"} \subseteq azs[ret.az].roles
    /\ ~ret.bool

\* The Authorizer ret.az holds exactly role j of chain c, which a task whose
\* resolver succeeded has added, and no error is recorded.
HoldsOnly(c, j) ==
    LET a == azs[ret.az]
        R == RoleName(chains[c].name, chains[c].roles[j].Id)
    IN  /\ a.roles = {R}
        /\ a.errors = {}
        /\ \E t \in DOMAIN tasks :
              /\ tasks[t].az = ret.az /\ tasks[t].pc = "exited"
              /\ tasks[t].err = NilErr /\ R \in Range(tasks[t].roles)

\* C3: an Authorizer whose only held role is chain.R, added by AddAsync with no
\* error, has HasPermission(p) true exactly for the permissions declared by R or
\* by roles added before R in its chain, and HasRole(chain.R) true; holding
\* use.Account.Member gives get, not update, not list.
C3_OnlyRoleGrantsItsChainPrefix ==
    \A c \in DOMAIN chains : \A j \in DOMAIN chains[c].roles :
        LET R == RoleName(chains[c].name, chains[c].roles[j].Id)
        IN  /\ (Returned("HasPermission") /\ HoldsOnly(c, j)) =>
                  /\ ret.bool <=> (ret.arg \in DeclaredUpTo(c, j))
                  /\ R = "use.Account.Member" =>
                        /\ ret.arg = "get" => ret.bool
                        /\ ret.arg \in {"update", "list"} => ~ret.bool
            /\ (Returned("HasRole") /\ HoldsOnly(c, j) /\ ret.arg = R) => ret.bool

\* Holding only use.Account.Admin, HasPermission("get") returned true: get is
\* declared by Member, added before Admin.
C3_Witness ==
    /\ Returned("HasPermission")
    /\ \E c \in DOMAIN chains : \E j \in DOMAIN chains[c].roles :
          /\ HoldsOnly(c, j)
          /\ RoleName(chains[c].name, chains[c].roles[j].Id) = "use.Account.Admin"
    /\ ret.arg = "get"
    /\ ret.bool

\* C4 as claimed: a task whose resolver failed records the failure's message
\* and none of its steps adds a role to the held-roles set.
C4_FailedResolverAddsNoRole ==
    [][\A t \in DOMAIN tasks :
          (tasks[t].err # NilErr /\ tasks'[t] # tasks[t]) =>
              /\ azs'[tasks[t].az].roles = azs[tasks[t].az].roles
              /\ tasks[t].pc = "call" => tasks[t].err[1] \in azs'[tasks[t].az].errors]_vars

\* C5: once a task whose resolver succeeded and returned a role unknown to the
\* index has completed, the role's "not allowed" message is recorded and every
\* role of the call is held; Err() is non-nil and carries the message, and
\* HasRole returns true for each role of the call.
C5_UnknownRoleFlaggedAndHeld ==
    \A t \in DOMAIN tasks :
        LET unknown == {r \in Range(tasks[t].roles) :
                            r \notin DOMAIN Rbac.roleToPermissionSet}
        IN  (tasks[t].pc = "exited" /\ tasks[t].err = NilErr /\ unknown # {}) =>
                /\ \A r \in unknown : NotAllowed(r) \in azs[tasks[t].az].errors
                /\ Range(tasks[t].roles) \subseteq azs[tasks[t].az].roles
                /\ (Returned("Err") /\ ret.az = tasks[t].az) =>
                      /\ ret.err # NilErr
                      /\ \A r \in unknown : NotAllowed(r) \in Range(ret.errors)
                /\ (Returned("HasRole") /\ ret.az = tasks[t].az
                        /\ ret.arg \in Range(tasks[t].roles)) => ret.bool

\* HasRole("ghost") returned true after a successful resolver returned ghost
\* and a known role, the only source of both.
C5_Witness ==
    /\ Returned("HasRole")
    /\ ret.arg = "ghost"
    /\ ret.bool
    /\ Len(tasks) = 1
    /\ tasks[1].roles = <<"ghost", "use.Account.Member">>
    /\ tasks[1].err = NilErr
    /\ azs[ret.az].roles = {"ghost", "use.Account.Member"}
    /\ azs[ret.az].errors = {NotAllowed("ghost")}

\* C6: Err() returns nil iff no resolver failed and none returned a role unknown
\* to the index; otherwise its error joins the recorded messages, each distinct
\* message exactly once.
C6_ErrCombinesDistinctMessages ==
    Returned("Err") =>
        LET mine == {t \in DOMAIN tasks : tasks[t].az = ret.az}
            recorded == UNION {TaskMessages(t) : t \in mine}
            clean == \A t \in mine :
                        /\ tasks[t].err = NilErr
                        /\ Range(tasks[t].roles) \subseteq DOMAIN Rbac.roleToPermissionSet
        IN  /\ \A t \in mine : tasks[t].pc = "exited"
            /\ (ret.err = NilErr) <=> clean
            /\ Range(ret.errors) = recorded
            /\ \A m \in recorded :
                  Cardinality({k \in DOMAIN ret.errors : ret.errors[k] = m}) = 1
            /\ ~clean => ret.err = Errorf(Join(ret.errors, "; "))

\* Err() returned the one message boom after two resolvers failed with it.
C6_Witness ==
    /\ Returned("Err")
    /\ ret.err = Errorf("boom")
    /\ \E t, u \in DOMAIN tasks :
          t # u /\ tasks[t].err = Errorf("boom") /\ tasks[u].err = Errorf("boom")

\* The roles of the chains, as <<chain index, role index>>.
AllRoles == UNION {{<<c, j>> : j \in DOMAIN chains[c].roles} : c \in DOMAIN chains}

FlatName(cj) == RoleName(chains[cj[1]].name, chains[cj[1]].roles[cj[2]].Id)

\* C7: the role added after R1..Rn has exactly its own declared permissions and
\* those declared by R1..Rn, in the chain and, when NewRbac succeeds, in
\* roleToPermissionSet under its flattened name.
C7_RoleGrantsUnionOfPrefix ==
    \A cj \in AllRoles :
        /\ Range(chains[cj[1]].roles[cj[2]].Permissions) = DeclaredUpTo(cj[1], cj[2])
        /\ HaveRbac =>
              /\ FlatName(cj) \in DOMAIN Rbac.roleToPermissionSet
              /\ Rbac.roleToPermissionSet[FlatName(cj)] = DeclaredUpTo(cj[1], cj[2])

\* An index was built from a chain whose second role declares update after a
\* first role that declares get, and maps the second role to both.
C7_Witness ==
    /\ HaveRbac
    /\ \E c \in DOMAIN chains :
          /\ declared[c] = << <<"get">>, <<"update">> >>
          /\ Rbac.roleToPermissionSet[FlatName(<<c, 2>>)] = {"get", "update"}

HasDuplicate(list) == \E k, l \in DOMAIN list : k # l /\ list[k] = list[l]

RECURSIVE Concat(_)
Concat(lists) == IF Len(lists) = 0 THEN <<>> ELSE Head(lists) \o Concat(Tail(lists))

NoChains == Len(chains) = 0
FlattenClash == \E x, y \in AllRoles : x # y /\ FlatName(x) = FlatName(y)
LiteralDuplicate == \E cj \in AllRoles : HasDuplicate(declared[cj[1]][cj[2]])
\* Some role's list, as NewRbac reads it, has a duplicate entry: the lists
\* passed to Add for it and for the roles before it in its chain, concatenated.
EffectiveDuplicate ==
    \E cj \in AllRoles : HasDuplicate(Concat(SubSeq(declared[cj[1]], 1, cj[2])))

C10_ChainHasRoleIdIffPresent ==
    (HaveRbac /\ ret.op = "ChainHasRoleId") =>
        (ret.bool <=> \E cj \in AllRoles :
                        /\ chains[cj[1]].name = ret.arg
                        /\ chains[cj[1]].roles[cj[2]].Id = ret.arg2)

\* The tasks AddAsync has scheduled on Authorizer v.
TasksOf(v) == {t \in DOMAIN tasks : tasks[t].az = v}

\* C11: once all tasks of an Authorizer have completed, whatever the order of
\* their steps, its held-roles set is the union of the roles given to
\* Authorizer(...) and Add(...) and of the roles every resolver returned, and
\* its error set is the union of the messages of every task.
C11_FinalStateIsUnionOfCalls ==
    \A v \in AzVars :
        (\A t \in TasksOf(v) : tasks[t].pc = "exited") =>
            /\ azs[v].roles =
                  azs[v].given \cup UNION {Range(tasks[t].roles) : t \in TasksOf(v)}
            /\ azs[v].errors = UNION {TaskMessages(t) : t \in TasksOf(v)}

\* Two tasks and a synchronous Add have each contributed a role of their own,
\* one task also a message, and all three roles are held.
C11_Witness ==
    /\ Len(tasks) = 2
    /\ \A t \in DOMAIN tasks : tasks[t].pc = "exited" /\ tasks[t].az = "az"
    /\ tasks[1].roles = <<"use.Account.Admin">>
    /\ tasks[2].roles = <<"ghost", "use.Account.Member">>
    /\ azs["az"].given = {"use.Account.Member"}
    /\ azs["az"].roles = {"use.Account.Admin", "ghost", "use.Account.Member"}
    /\ azs["az"].errors = {NotAllowed("ghost")}

\* C13: every role given to Authorizer(...) or Add(...) is held, known to the
\* index or not, and the synchronous path records no error: the error set holds
\* only messages of tasks.  A held role that is no key of roleToPermissionSet
\* answers HasRole with true and gives no permission, for HasPermission
\* answers as if the role were not held, and Err() is nil when no task recorded
\* a message.  Adding roles that are already held changes nothing.
C13_SyncAddUnvalidated ==
    /\ \A v \in AzVars :
          /\ azs[v].given \subseteq azs[v].roles
          /\ azs[v].errors \subseteq UNION {TaskMessages(t) : t \in TasksOf(v)}
    /\ (Returned("HasRole") /\ ret.arg \in azs[ret.az].given) => ret.bool
    /\ Returned("HasPermission") =>
          (ret.bool <=> \E r \in azs[ret.az].roles \cap DOMAIN Rbac.roleToPermissionSet :
                          ret.arg \in Rbac.roleToPermissionSet[r])
    /\ (Returned("Err") /\ \A t \in TasksOf(ret.az) : TaskMessages(t) = {}) =>
          ret.err = NilErr
    /\ \A v \in AzVars, roles \in SyncRoleLists :
          /\ Range(roles) \subseteq azs[v].roles => AddOp(azs[v], roles, 1) = azs[v]
          /\ AddOp(AddOp(azs[v], roles, 1), roles, 1) = AddOp(azs[v], roles, 1)
    /\ \A v \in AzVars, p \in QueryPermissions :
          HasPermissionOp(azs[v], Rbac, p) =
              HasPermissionOp([azs[v] EXCEPT !.roles =
                                  @ \cap DOMAIN Rbac.roleToPermissionSet], Rbac, p)

\* Err() returned nil on an Authorizer that was given the unknown role ghost
\* and has scheduled no task.
C13_Witness ==
    /\ Returned("Err")
    /\ ret.err = NilErr
    /\ "ghost" \in azs[ret.az].given
    /\ "ghost" \in azs[ret.az].roles
    /\ TasksOf(ret.az) = {}

\* C16: the WaitGroup counter of an Authorizer is the number of AddAsync calls
\* made on it minus the number of their tasks that have completed, and never
\* negative: a task that has not started yet is counted, and a task that has
\* completed, its resolver failed or not, has been counted down once and only
\* after its error and role stores.
C16_CountIsScheduledMinusCompleted ==
    \A v \in AzVars :
        /\ azs[v].wg =
              Cardinality(TasksOf(v))
                  - Cardinality({t \in TasksOf(v) : tasks[t].pc = "exited"})
        /\ azs[v].wg >= 0
        /\ \A t \in TasksOf(v) :
              tasks[t].pc = "exited" =>
                  /\ TaskMessages(t) \subseteq azs[v].errors
                  /\ Range(tasks[t].roles) \subseteq azs[v].roles

\* Of two tasks, the one whose resolver failed has completed and the other has
\* not started: the counter is one.
C16_Witness ==
    /\ Len(tasks) = 2
    /\ \E t, u \in TasksOf("az") :
          /\ tasks[t].pc = "exited" /\ tasks[t].err # NilErr
          /\ tasks[u].pc = "call"
    /\ azs["az"].wg = 1

\* An Authorizer that holds just the given role.
Holding(role) == [NewAuthorizer EXCEPT !.roles = {role}]

\* C18: of two roles of one chain, the permissions of the one added earlier are
\* a subset of those of the one added later, in the chain and in a built index,
\* so an Authorizer that holds the later role has every permission the earlier
\* role alone gives; a role added with an empty permission list has exactly the
\* permissions of the role added before it.
C18_ChainPermissionsMonotone ==
    \A c \in DOMAIN chains :
        \A j, k \in DOMAIN chains[c].roles :
            j < k =>
                /\ Range(chains[c].roles[j].Permissions)
                      \subseteq Range(chains[c].roles[k].Permissions)
                /\ (k = j + 1 /\ declared[c][k] = <<>>) =>
                      chains[c].roles[k].Permissions = chains[c].roles[j].Permissions
                /\ HaveRbac =>
                      /\ Rbac.roleToPermissionSet[FlatName(<<c, j>>)]
                            \subseteq Rbac.roleToPermissionSet[FlatName(<<c, k>>)]
                      /\ \A p \in QueryPermissions :
                            HasPermissionOp(Holding(FlatName(<<c, j>>)), Rbac, p)
                                => HasPermissionOp(Holding(FlatName(<<c, k>>)), Rbac, p)
                      /\ (k = j + 1 /\ declared[c][k] = <<>>) =>
                            Rbac.roleToPermissionSet[FlatName(<<c, k>>)]
                                = Rbac.roleToPermissionSet[FlatName(<<c, j>>)]

\* An index was built from a chain whose second role was added with an empty
\* list after a first role that declares get, and both roles give get.
C18_Witness ==
    /\ HaveRbac
    /\ \E c \in DOMAIN chains :
          /\ declared[c] = << <<"get">>, <<>> >>
          /\ HasPermissionOp(Holding(FlatName(<<c, 1>>)), Rbac, "get")
          /\ HasPermissionOp(Holding(FlatName(<<c, 2>>)), Rbac, "get")

\* C19: no step removes an entry of the held-roles set or of the error set of
\* an Authorizer, so no step turns the answer of HasRole or HasPermission from
\* true to false or that of Err from non-nil to nil, and a query returns the
\* answer that its body gives on the sets as they are when the wait returns.
C19_SetsOnlyGrow ==
    [][/\ \A v \in AzVars :
             /\ azs[v].roles \subseteq azs'[v].roles
             /\ azs[v].errors \subseteq azs'[v].errors
             /\ \A r \in QueryRoles : HasRoleOp(azs[v], r) => HasRoleOp(azs'[v], r)
             /\ \A p \in QueryPermissions :
                   HasPermissionOp(azs[v], built.rbac, p)
                       => HasPermissionOp(azs'[v], built'.rbac, p)
             /\ \A errors \in RangeOrders(azs[v].errors) :
                   ErrOp(errors) # NilErr =>
                       \A later \in RangeOrders(azs'[v].errors) : ErrOp(later) # NilErr
       /\ (callerPc = "waiting" /\ callerPc' = "idle") =>
             /\ query.op = "HasRole" => ret'.bool = HasRoleOp(azs[query.az], query.arg)
             /\ query.op = "HasPermission" =>
                   ret'.bool = HasPermissionOp(azs[query.az], built.rbac, query.arg)
             /\ query.op = "Err" => (ret'.err # NilErr <=> azs[query.az].errors # {})
      ]_vars

\* HasRole returned true for a role given first, after two tasks have added
\* other roles and a message to the sets.
C19_Witness ==
    /\ Returned("HasRole")
    /\ ret.bool
    /\ ret.arg \in azs[ret.az].given
    /\ Cardinality(ret.before) = 2
    /\ \A t \in ret.before : ret.arg \notin Range(tasks[t].roles)
    /\ Cardinality(azs[ret.az].roles) = 3
    /\ azs[ret.az].errors # {}

\* C20: in a built index, role r is in permissionToRoleSet[p] if and only if p
\* is in roleToPermissionSet[r], and every role name in permissionToRoleSet is
\* a key of roleToPermissionSet and is chainName.roleId for a roleId in
\* chainToRoleIdSet[chainName].
C20_MapsInverseAndNamesIndexed ==
    HaveRbac =>
        /\ \A p \in DOMAIN Rbac.permissionToRoleSet \cup QueryPermissions,
              r \in DOMAIN Rbac.roleToPermissionSet \cup QueryRoles :
                r \in MapGet(Rbac.permissionToRoleSet, p)
                    <=> p \in MapGet(Rbac.roleToPermissionSet, r)
        /\ \A p \in DOMAIN Rbac.permissionToRoleSet :
              \A r \in Rbac.permissionToRoleSet[p] :
                  /\ r \in DOMAIN Rbac.roleToPermissionSet
                  /\ \E chainName \in DOMAIN Rbac.chainToRoleIdSet :
                        \E roleId \in Rbac.chainToRoleIdSet[chainName] :
                            r = RoleName(chainName, roleId)

\* C12: once NewRbac has returned an index, no step changes
\* permissionToRoleSet, chainToRoleIdSet or roleToPermissionSet: not the
\* creation of an Authorizer, Add, AddAsync and the steps of its task, Err,
\* HasPermission (for a permission the index has or has not), HasRole,
\* ChainHasRoleId, nor a later Add on a chain the index was built from.
C12_IndexNeverChanges ==
    [][HaveRbac =>
          /\ built'.rbac.permissionToRoleSet = built.rbac.permissionToRoleSet
          /\ built'.rbac.chainToRoleIdSet = built.rbac.chainToRoleIdSet
          /\ built'.rbac.roleToPermissionSet = built.rbac.roleToPermissionSet
          /\ built' = built]_vars

\* Both chains of init() have got a role Owner with the new permission nope
\* after the index was built, a task has run, and HasPermission("nope") has
\* returned false on the index as NewRbac built it.
C12_Witness ==
    /\ Returned("HasPermission")
    /\ ret.arg = "nope"
    /\ ~ret.bool
    /\ \A c \in DOMAIN chains : Len(chains[c].roles) = Len(TestProgram[c].adds) + 1
    /\ \E t \in ret.before : tasks[t].pc = "exited"
    /\ "ghost" \in azs["az"].given
    /\ "nope" \notin DOMAIN Rbac.permissionToRoleSet
    /\ Rbac = NewRbacOp(ChainsOf(TestProgram)).rbac

\* What an Authorizer can hold from the calls made on it.
OwnRoles(v) == azs[v].given \cup UNION {Range(tasks[t].roles) : t \in TasksOf(v)}

OwnMessages(v) == UNION {TaskMessages(t) : t \in TasksOf(v)}

\* C14: a query on an Authorizer whose own tasks have all completed can return,
\* whatever the tasks of the other Authorizer do, and the roles and messages
\* of an Authorizer come only from the calls made on it, so a query answers
\* from them alone.
C14_AuthorizersIndependent ==
    /\ (callerPc = "waiting" /\ azs[query.az].wg = 0) => ENABLED ReturnQuery
    /\ \A v \in AzVars :
          /\ azs[v].roles \subseteq OwnRoles(v)
          /\ azs[v].errors \subseteq OwnMessages(v)
    /\ (Returned("HasRole") /\ ret.bool) => ret.arg \in OwnRoles(ret.az)
    /\ (Returned("HasPermission") /\ ret.bool) =>
          \E r \in OwnRoles(ret.az) : r \in MapGet(Rbac.permissionToRoleSet, ret.arg)
    /\ Returned("Err") => Range(ret.errors) \subseteq OwnMessages(ret.az)

\* HasRole("ghost") on az has returned false while a task of other that adds
\* ghost has not completed and other holds ghost from its own Add.
C14_Witness ==
    /\ Returned("HasRole")
    /\ ret.az = "az"
    /\ ret.arg = "ghost"
    /\ ~ret.bool
    /\ azs["other"].wg > 0
    /\ \E t \in TasksOf("other") :
          tasks[t].pc # "exited" /\ "ghost" \in Range(tasks[t].roles)
    /\ "ghost" \in azs["other"].roles
    /\ azs["az"].roles = {"use.Account.Member"}

\* C17: when every task is scheduled after a query has returned with the
\* counter at zero, the counter is above zero again while such a task has not
\* completed, a query called after the AddAsync cannot return before the task
\* has completed, and when it has returned its value holds what the task
\* recorded.
C17_BarrierRearms ==
    /\ \A t \in DOMAIN tasks : tasks[t].pc # "exited" => azs[tasks[t].az].wg > 0
    /\ (callerPc = "waiting" /\ \E t \in query.before : tasks[t].pc # "exited")
          => ~ENABLED ReturnQuery
    /\ \A op \in {"Err", "HasPermission", "HasRole"} :
          Returned(op) =>
              /\ \A t \in ret.before : tasks[t].pc = "exited"
              /\ op = "Err" =>
                    ret.err = ErrOp(ret.errors)
                    /\ Range(ret.errors) = UNION {TaskMessages(t) : t \in ret.before}
              /\ op = "HasRole" =>
                    (ret.bool <=> ret.arg \in OwnRoles(ret.az))
              /\ op = "HasPermission" =>
                    (ret.bool <=> \E r \in OwnRoles(ret.az) :
                                    r \in MapGet(Rbac.permissionToRoleSet, ret.arg))

\* A first task was scheduled after a query had returned and has completed; a
\* second one was scheduled after a later query had returned, was running when
\* HasRole was called, and HasRole has returned true for the role only it adds.
C17_Witness ==
    /\ Returned("HasRole")
    /\ ret.bool
    /\ Len(tasks) = 2
    /\ ret.running = {2}
    /\ ret.arg \in Range(tasks[2].roles)
    /\ ret.arg \notin Range(tasks[1].roles) \cup azs[ret.az].given
    /\ azs[ret.az].wg = 0

\* A task scheduled before the running query whose resolver never returns.
HungBefore == \E t \in query.before : tasks[t].pc = "hung"

\* C15: a query called on an Authorizer all of whose resolvers return does
\* return; a query called after a resolver that never returns was scheduled
\* waits forever; and Add and AddAsync can be called and return in one step
\* whatever the tasks do.
C15_QueriesReturnIffResolversReturn ==
    /\ (callerPc = "waiting" /\ ~HungBefore) ~> (callerPc = "idle")
    /\ []((callerPc = "waiting" /\ HungBefore) =>
            (~ENABLED ReturnQuery /\ [](callerPc = "waiting")))
    /\ []((callerPc = "idle" /\ azs["az"].created) =>
            /\ ENABLED Add("az", <<"ghost">>)
            /\ Len(tasks) < MaxTasks =>
                  /\ \A f \in FewResolvers : ENABLED AddAsync("az", f.roles, f.err)
                  /\ ENABLED AddAsyncNever("az"))

\* Err() was called while a task was in its resolver and has returned what
\* the task recorded; both resolvers of the program have returned.
C15_Witness ==
    /\ Returned("Err")
    /\ ret.running # {}
    /\ ret.err # NilErr
    /\ Len(tasks) = 2
    /\ \A t \in DOMAIN tasks : tasks[t].pc = "exited"

====
